---- MODULE Spec2Model ----
(***************************************************************************)
(* Console::Field of the Daemon engine (engine/framework/ConsoleField.cpp): *)
(* the editable console line, its submission to the command buffer          *)
(* (RunCommand) and tab completion (AutoComplete).                          *)
(*                                                                          *)
(* The line buffer is a std::u32string: a sequence of code points.  Every   *)
(* std::string (the submitted line, command text, tokens, candidate names)  *)
(* is a sequence of bytes, the UTF-8 form of the text.  Code points and     *)
(* bytes are numbers, so that ordering, case folding and the UTF-8 widths   *)
(* are those of the program.                                                *)
(***************************************************************************)
EXTENDS Integers, Sequences, FiniteSets, TLC

VARIABLES
    text,     \* LineEditData::buffer, code points
    cursor,   \* LineEditData::cursor, 0 .. Len(text)
    hist,     \* the lines handed to History::Add, oldest first (UTF-8)
    queue,    \* the texts handed to Cmd::BufferCommandText, oldest first (UTF-8)
    op,       \* the operation that ran last
    calls,    \* the inputs of every RunCommand call so far: [line, def]
    ncalls,   \* AutoComplete calls so far
    ac,       \* what the last AutoComplete call read, computed and wrote
    prev      \* the same for the AutoComplete call before it

vars == <<text, cursor, hist, queue, op, calls, ncalls, ac, prev>>

----------------------------------------------------------------------------
(* Characters.                                                              *)

CP == [slash |-> 47, backslash |-> 92, space |-> 32, dot |-> 46, semi |-> 59,
       quote |-> 34, dollar |-> 36, star |-> 42,
       a |-> 97, b |-> 98, c |-> 99, s |-> 115, x |-> 120, z |-> 122,
       y |-> 121, A |-> 65, eacute |-> 233]

Min(m, n) == IF m <= n THEN m ELSE n
Max(m, n) == IF m >= n THEN m ELSE n

\* the first n elements, the elements after the first n
Take(str, n) == SubSeq(str, 1, Min(n, Len(str)))
Drop(str, n) == SubSeq(str, n + 1, Len(str))

----------------------------------------------------------------------------
(* Str::UTF32To8 and Str::UTF8To32.                                         *)

EncodeCP(cp) ==
    IF cp < 128 THEN <<cp>>
    ELSE IF cp < 2048 THEN <<192 + (cp \div 64), 128 + (cp % 64)>>
    ELSE <<224 + (cp \div 4096), 128 + ((cp \div 64) % 64), 128 + (cp % 64)>>

RECURSIVE UTF32To8(_)
UTF32To8(str) ==
    IF str = <<>> THEN <<>> ELSE EncodeCP(Head(str)) \o UTF32To8(Tail(str))

\* a byte that starts no well-formed sequence decodes to U+FFFD
RECURSIVE UTF8To32(_)
UTF8To32(bytes) ==
    IF bytes = <<>> THEN <<>>
    ELSE LET b == bytes[1] IN
         IF b < 128 THEN <<b>> \o UTF8To32(Tail(bytes))
         ELSE IF b >= 192 /\ b < 224 /\ Len(bytes) >= 2
              THEN <<(b - 192) * 64 + (bytes[2] - 128)>> \o UTF8To32(Drop(bytes, 2))
         ELSE IF b >= 224 /\ b < 240 /\ Len(bytes) >= 3
              THEN <<(b - 224) * 4096 + (bytes[2] - 128) * 64 + (bytes[3] - 128)>>
                   \o UTF8To32(Drop(bytes, 3))
         ELSE <<65533>> \o UTF8To32(Tail(bytes))

\* Str::cisspace
cisspace(ch) == ch = 32 \/ (ch >= 9 /\ ch <= 13)

\* Str::ctolower
ctolower(ch) == IF ch >= 65 /\ ch <= 90 THEN ch + 32 ELSE ch

----------------------------------------------------------------------------
(* LineEditData: the buffer primitives Field inherits.                      *)

\* std::u32string::insert(pos, str)
Insert(str, pos, ins) == Take(str, pos) \o ins \o Drop(str, pos)

\* LineEditData::SetCursor
SetCursor(str, pos) == Max(0, Min(pos, Len(str)))

\* LineEditData::DeletePrev(times): [text, cursor] after the deletion
DeletePrev(str, cur, times) ==
    LET n == Min(times, cur) IN
    [text |-> Take(str, cur - n) \o Drop(str, cur), cursor |-> cur - n]

----------------------------------------------------------------------------
(* Cmd::Escape: quote a text so that the tokenizer reads it as one argument *)

RECURSIVE EscapeBody(_)
EscapeBody(bytes) ==
    IF bytes = <<>> THEN <<>>
    ELSE LET ch == Head(bytes) IN
         (IF ch = CP.backslash \/ ch = CP.quote \/ ch = CP.dollar
          THEN <<CP.backslash, ch>> ELSE <<ch>>) \o EscapeBody(Tail(bytes))

NeedsQuotes(bytes) ==
    \/ bytes = <<>>
    \/ \E i \in 1..Len(bytes) : cisspace(bytes[i]) \/ bytes[i] = CP.semi
    \/ \E i \in 1..(Len(bytes) - 1) :
          bytes[i] = CP.slash /\ (bytes[i + 1] = CP.slash \/ bytes[i + 1] = CP.star)

Escape(bytes) ==
    IF NeedsQuotes(bytes)
    THEN <<CP.quote>> \o EscapeBody(bytes) \o <<CP.quote>>
    ELSE EscapeBody(bytes)

\* std::string(const char*): the bytes up to the first NUL
RECURSIVE CStr(_)
CStr(bytes) ==
    IF bytes = <<>> \/ Head(bytes) = 0 THEN <<>>
    ELSE <<Head(bytes)>> \o CStr(Tail(bytes))

\* Cmd::BufferCommandText(text, true): appended to the command buffer
BufferCommandText(q, cmd) == Append(q, cmd)

\* History::Add
HistAdd(h, line) == Append(h, line)

----------------------------------------------------------------------------
(* Field::RunCommand                                                        *)

\* lines 58-64: the text handed to Cmd::BufferCommandText
DispatchedBad(current, defaultCommand) ==
    IF current[1] = CP.slash
    THEN CStr(Tail(current))
    ELSE IF defaultCommand = <<>>
    THEN current
    ELSE defaultCommand \o <<CP.space>> \o Escape(current)

Dispatched(current, defaultCommand) ==
    IF current[1] = CP.slash \/ current[1] = CP.backslash
    THEN CStr(Tail(current))
    ELSE IF defaultCommand = <<>>
    THEN current
    ELSE defaultCommand \o <<CP.space>> \o Escape(current)

\* line 65: what History::Add receives
HistoryEntryBad(current) ==
    IF current[1] = CP.slash \/ current[1] = CP.backslash
    THEN CStr(Tail(current)) ELSE current

HistoryEntry(current) == current

----------------------------------------------------------------------------
(* Cmd::SplitCommand and Cmd::Args: the command splitter and the tokenizer. *)

\* Cmd::SplitCommand(start, end) on 0-based offsets: the offset after the
\* first separator (';' outside quotes, or a newline) at or after start,
\* or the end
RECURSIVE SplitFrom(_, _, _)
SplitFrom(bytes, i, inQuote) ==
    IF i >= Len(bytes) THEN Len(bytes)
    ELSE LET ch == bytes[i + 1] IN
         IF ch = CP.quote THEN SplitFrom(bytes, i + 1, ~inQuote)
         ELSE IF (ch = CP.semi /\ ~inQuote) \/ ch = 10 THEN i + 1
         ELSE SplitFrom(bytes, i + 1, inQuote)

SplitCommand(bytes, start) == SplitFrom(bytes, start, FALSE)

\* Cmd::Args(std::string): the tokens, split at whitespace outside quotes;
\* the quotes themselves are dropped
RECURSIVE TokensFrom(_, _, _, _, _)
TokensFrom(bytes, i, cur, inTok, inQuote) ==
    IF i > Len(bytes) THEN (IF inTok THEN <<cur>> ELSE <<>>)
    ELSE LET ch == bytes[i] IN
         IF ch = CP.quote THEN TokensFrom(bytes, i + 1, cur, TRUE, ~inQuote)
         ELSE IF cisspace(ch) /\ ~inQuote
         THEN (IF inTok THEN <<cur>> ELSE <<>>)
              \o TokensFrom(bytes, i + 1, <<>>, FALSE, FALSE)
         ELSE TokensFrom(bytes, i + 1, Append(cur, ch), TRUE, inQuote)

Args(bytes) == TokensFrom(bytes, 1, <<>>, FALSE, FALSE)

----------------------------------------------------------------------------
(* String helpers of Str::                                                  *)

RECURSIVE PrefixFrom(_, _, _, _)
PrefixFrom(s1, s2, i, fold) ==
    IF i > Len(s1) \/ i > Len(s2) THEN i - 1
    ELSE IF (IF fold THEN ctolower(s1[i]) /= ctolower(s2[i]) ELSE s1[i] /= s2[i])
    THEN i - 1
    ELSE PrefixFrom(s1, s2, i + 1, fold)

\* Str::LongestPrefixSize
LongestPrefixSize(s1, s2) == PrefixFrom(s1, s2, 1, FALSE)

\* Str::LongestIPrefixSize
LongestIPrefixSize(s1, s2) == PrefixFrom(s1, s2, 1, TRUE)

\* Str::IsSuffix(suffix, str)
IsSuffix(suffix, str) ==
    Len(suffix) <= Len(str) /\ Drop(str, Len(str) - Len(suffix)) = suffix

\* std::string::rfind(ch, pos) stored in an int: the last 0-based offset
\* <= pos holding ch, or -1 (npos)
RFind(str, ch, pos) ==
    LET hits == {k \in 0..Min(pos, Len(str) - 1) : str[k + 1] = ch} IN
    IF hits = {} THEN -1 ELSE CHOOSE k \in hits : \A m \in hits : m <= k

\* std::string operator<: bytewise lexicographic
RECURSIVE StrLess(_, _)
StrLess(s1, s2) ==
    IF s2 = <<>> THEN FALSE
    ELSE IF s1 = <<>> THEN TRUE
    ELSE IF Head(s1) /= Head(s2) THEN Head(s1) < Head(s2)
    ELSE StrLess(Tail(s1), Tail(s2))

\* std::pair operator< on a Cmd::CompletionItem [first, second]
ItemLess(p, q) ==
    StrLess(p.first, q.first)
    \/ (~StrLess(q.first, p.first) /\ StrLess(p.second, q.second))

----------------------------------------------------------------------------
(* Field::AutoComplete, step by step                                        *)

\* line 74: the buffer does not start a command line yet
NeedsSlash(str) ==
    str = <<>> \/ (str[1] /= CP.slash /\ str[1] /= CP.backslash)

\* lines 74-77: [text, cursor] after the slash prefix is added
Normalized(str, cur) ==
    IF NeedsSlash(str)
    THEN LET t1 == Insert(str, 0, <<CP.slash>>) IN
         [text |-> t1, cursor |-> SetCursor(t1, cur + 1)]
    ELSE [text |-> str, cursor |-> cur]

\* an int passed for a size_t: a negative count is a huge one
SizeT(n) == IF n < 0 THEN 2147483647 + n + 1 ELSE n

\* std::u32string::substr(pos, count)
U32Substr(str, pos, count) ==
    IF count >= Len(str) - pos THEN Drop(str, pos)
    ELSE SubSeq(str, pos + 1, pos + count)

\* line 78: the command text handed to the splitter
CommandText(str, cur) == UTF32To8(U32Substr(str, 1, SizeT(cur - 1)))

\* lines 81-89: the offset at which the command to complete starts
RECURSIVE ActiveStartFrom(_, _)
ActiveStartFrom(bytes, commandStart) ==
    LET next == SplitCommand(bytes, commandStart) IN
    IF next /= Len(bytes) THEN ActiveStartFrom(bytes, next) ELSE commandStart

ActiveStart(bytes) == ActiveStartFrom(bytes, 0)

\* line 95: a new, empty argument is completed
NewArgumentBad(argc, spaceBefore) == argc = 0

NewArgument(argc, spaceBefore) == argc = 0 \/ spaceBefore

\* line 102: nothing to complete
NoCandidatesBad(candidates) == Len(candidates) <= 1

NoCandidates(candidates) == candidates = <<>>

\* line 105: std::sort
RECURSIVE InsertSorted(_, _)
InsertSorted(sorted, item) ==
    IF sorted = <<>> THEN <<item>>
    ELSE IF ItemLess(item, Head(sorted)) THEN <<item>> \o sorted
    ELSE <<Head(sorted)>> \o InsertSorted(Tail(sorted), item)

RECURSIVE Sort(_)
Sort(items) ==
    IF items = <<>> THEN <<>>
    ELSE InsertSorted(Sort(Tail(items)), Head(items))

\* line 106: std::unique and erase, on whole items
RECURSIVE UniqueBad(_)
UniqueBad(items) ==
    IF Len(items) <= 1 THEN items
    ELSE IF items[1].first = items[2].first THEN UniqueBad(Tail(items))
    ELSE <<Head(items)>> \o UniqueBad(Tail(items))

RECURSIVE Unique(_)
Unique(items) ==
    IF Len(items) <= 1 THEN items
    ELSE IF items[1] = items[2] THEN Unique(Tail(items))
    ELSE <<Head(items)>> \o Unique(Tail(items))

\* lines 105-106
SortUniqueBad(items) == UniqueBad(Sort(items))

SortUnique(items) == Unique(Sort(items))

\* lines 109-114: the longest common prefix of all the results
RECURSIVE PrefixSizeFrom(_, _, _)
PrefixSizeFrom(candidates, i, prefixSize) ==
    IF i > Len(candidates) THEN prefixSize
    ELSE PrefixSizeFrom(candidates, i + 1,
            Min(prefixSize,
                LongestIPrefixSize(candidates[i].first, candidates[1].first)))

PrefixSizeBad(candidates) ==
    LongestIPrefixSize(candidates[Len(candidates)].first, candidates[1].first)

PrefixSize(candidates) ==
    PrefixSizeFrom(candidates, 1, Len(candidates[1].first))

\* lines 110-114
RECURSIVE MaxCandidateLength(_)
MaxCandidateLength(candidates) ==
    IF candidates = <<>> THEN 0
    ELSE Max(Len(Head(candidates).first), MaxCandidateLength(Tail(candidates)))

\* line 116
CompletedArg(candidates, prefixSize) == Take(candidates[1].first, prefixSize)

\* GetText()[pos] for 0 <= pos <= size: the terminator at pos = size
CharAt(str, pos) == IF pos < Len(str) THEN str[pos + 1] ELSE 0

\* line 119: a space follows the completed argument
AppendsSpaceBad(size, atCursor, completedArg) ==
    size = 1 /\ ~IsSuffix(<<CP.slash>>, completedArg)

AppendsSpace(size, atCursor, completedArg) ==
    size = 1 /\ ~cisspace(atCursor) /\ ~IsSuffix(<<CP.slash>>, completedArg)

\* lines 125-127: [text, cursor] after the completed argument is inserted
Splice(str, cur, prefix, toInsert) ==
    LET del == DeletePrev(str, cur, Len(prefix))
        t2  == Insert(del.text, del.cursor, toInsert)
    IN [text |-> t2, cursor |-> SetCursor(t2, del.cursor + Len(toInsert))]

----------------------------------------------------------------------------
(* The ambiguity report, lines 130-183.  A line of the interaction log is   *)
(* [kind, first, last, line]: the candidates first..last (positions in the  *)
(* sorted list) it stands for, and its bytes.                               *)

Spaces(n) == [i \in 1..n |-> CP.space]

RECURSIVE Decimal(_)
Decimal(n) == IF n < 10 THEN <<48 + n>> ELSE Decimal(n \div 10) \o <<48 + (n % 10)>>

\* line 131: "^3-> ^*%s"
ShowLine(str) ==
    [kind |-> "line", first |-> 0, last |-> 0,
     line |-> <<94, 51, 45, 62, 32, 94, 42>> \o UTF32To8(str)]

\* lines 133-136: "   %s%s %s"
ShowCandidate(candidates, i, maxCandidateLength) ==
    [kind |-> "candidate", first |-> i, last |-> i,
     line |-> Spaces(3) \o candidates[i].first
              \o Spaces(maxCandidateLength - Len(candidates[i].first))
              \o <<CP.space>> \o candidates[i].second]

\* lines 178-179: "   %s.{x%i}"
ShowNamespace(candidates, it, jt, nsLen) ==
    [kind |-> "namespace", first |-> it, last |-> jt,
     line |-> Spaces(3) \o Take(candidates[it].first, nsLen)
              \o <<CP.dot, 123, CP.x>> \o Decimal(jt - it + 1) \o <<125>>]

\* lines 156-166: [jt, nsLen] when the inner loop stops
RECURSIVE ScanRun(_, _, _, _, _)
ScanRun(candidates, it, jt, nsLen, prefixSize) ==
    IF jt > Len(candidates) THEN [jt |-> jt, nsLen |-> nsLen]
    ELSE LET commonPrefixLen ==
                 LongestPrefixSize(candidates[it].first, candidates[jt].first)
             commonNSLen == RFind(candidates[it].first, CP.dot, commonPrefixLen)
         IN IF commonNSLen = commonPrefixLen \/ commonNSLen < prefixSize
            THEN [jt |-> jt, nsLen |-> nsLen]
            ELSE ScanRun(candidates, it, jt + 1, commonNSLen, prefixSize)

\* lines 151-182
RECURSIVE GroupedFrom(_, _, _, _)
GroupedFrom(candidates, it, prefixSize, maxCandidateLength) ==
    IF it > Len(candidates) THEN <<>>
    ELSE LET stop == ScanRun(candidates, it, it + 1, 0, prefixSize)
             jt   == stop.jt - 1
         IN IF it = jt
            THEN <<ShowCandidate(candidates, it, maxCandidateLength)>>
                 \o GroupedFrom(candidates, it + 1, prefixSize, maxCandidateLength)
            ELSE <<ShowNamespace(candidates, it, jt, stop.nsLen)>>
                 \o GroupedFrom(candidates, jt + 1, prefixSize, maxCandidateLength)

\* lines 130-184
Report(candidates, argNum, prefixSize, str) ==
    IF Len(candidates) >= 2
    THEN <<ShowLine(str)>> \o
         (IF argNum > 1
          THEN [i \in 1..Len(candidates) |->
                   ShowCandidate(candidates, i, MaxCandidateLength(candidates))]
          ELSE GroupedFrom(candidates, 1, prefixSize,
                           MaxCandidateLength(candidates)))
    ELSE <<>>

----------------------------------------------------------------------------
(* Field::AutoComplete, lines 70-185, as one call on buffer str and cursor  *)
(* cur.  answer is what Cmd::CompleteArgument returns.  With the cursor at  *)
(* offset 0 of a buffer that starts with a slash, line 95 reads             *)
(* GetText()[-1], outside the string: oob is what Str::cisspace makes of    *)
(* the value found there.                                                   *)

NoAC ==
    [called |-> FALSE, preText |-> <<>>, preCursor |-> 0, normText |-> <<>>,
     normCursor |-> 0, commandText |-> <<>>, active |-> <<>>, args |-> <<>>,
     argNum |-> 0, prefix |-> <<>>, oobRead |-> FALSE, answer |-> <<>>,
     result |-> "none", candidates |-> <<>>, prefixSize |-> 0,
     completedArg |-> <<>>, spaced |-> FALSE, toInsert |-> <<>>,
     report |-> <<>>, text |-> <<>>, cursor |-> 0]

AutoCompleteResult(str, cur, answer, oob) ==
    LET norm        == Normalized(str, cur)
        commandText == CommandText(norm.text, norm.cursor)
        active      == Drop(commandText, ActiveStart(commandText))
        args        == Args(active)
        argc        == Len(args)
        oobRead     == argc /= 0 /\ norm.cursor = 0
        spaceBefore == IF argc = 0 THEN FALSE
                       ELSE IF norm.cursor = 0 THEN oob
                       ELSE cisspace(norm.text[norm.cursor])
        newArg      == NewArgument(argc, spaceBefore)
        argNum      == IF newArg THEN argc ELSE argc - 1
        prefix      == IF newArg THEN <<>> ELSE args[argc]
        read        == [called |-> TRUE, preText |-> str, preCursor |-> cur,
                        normText |-> norm.text, normCursor |-> norm.cursor,
                        commandText |-> commandText, active |-> active,
                        args |-> args, argNum |-> argNum, prefix |-> prefix,
                        oobRead |-> oobRead, answer |-> answer]
    IN IF NoCandidates(answer)
       THEN [result |-> "nocandidates", candidates |-> <<>>, prefixSize |-> 0,
             completedArg |-> <<>>, spaced |-> FALSE, toInsert |-> <<>>,
             report |-> <<>>, text |-> norm.text, cursor |-> norm.cursor] @@ read
       ELSE LET candidates == SortUnique(answer)
                prefixSize == PrefixSize(candidates)
                arg0       == CompletedArg(candidates, prefixSize)
                spaced     == AppendsSpace(Len(candidates),
                                           CharAt(norm.text, norm.cursor), arg0)
                completedArg == IF spaced THEN Append(arg0, CP.space) ELSE arg0
                toInsert   == UTF8To32(completedArg)
                done       == Splice(norm.text, norm.cursor, prefix, toInsert)
            IN [result |-> "completed", candidates |-> candidates,
                prefixSize |-> prefixSize, completedArg |-> completedArg,
                spaced |-> spaced, toInsert |-> toInsert,
                report |-> Report(candidates, argNum, prefixSize, done.text),
                text |-> done.text, cursor |-> done.cursor] @@ read

----------------------------------------------------------------------------
(* Bounds and the inputs drawn within them.                                 *)

MaxRunLen == 2      \* characters typed into a line before it is submitted
MaxCalls == 2       \* RunCommand calls
MaxLen == 2         \* length of the buffer AutoComplete starts from
MaxCands == 3       \* candidates the provider returns
MaxTabs == 2        \* AutoComplete calls in a row
MaxTabCands == 2    \* candidates the provider returns to each of them

SeqsUpTo(S, n) == UNION {[1..k -> S] : k \in 0..n}

RunChars == {CP.slash, CP.backslash, CP.space, CP.a, CP.eacute}
DefaultCommands == {<<>>, <<CP.s, CP.a, CP.y>>}

CompleteChars == {CP.slash, CP.backslash, CP.space, CP.semi, CP.a, CP.eacute}

Item(name, description) == [first |-> name, second |-> description]

Items ==
    { Item(<<CP.a>>, <<>>), Item(<<CP.a>>, <<CP.x>>),
      Item(<<CP.A, CP.b>>, <<>>), Item(<<CP.a, CP.b>>, <<>>),
      Item(<<CP.a, CP.slash>>, <<>>),
      Item(<<CP.a, CP.dot, CP.b, CP.dot, CP.c>>, <<>>),
      Item(<<CP.a, CP.dot, CP.b, CP.x>>, <<>>),
      Item(<<CP.z>>, <<>>) }

TabItems ==
    { Item(<<CP.a>>, <<>>), Item(<<CP.a, CP.slash>>, <<>>), Item(<<>>, <<>>) }

Answers == SeqsUpTo(Items, MaxCands)
TabAnswers == SeqsUpTo(TabItems, MaxTabCands)

----------------------------------------------------------------------------
(* The state machine.                                                       *)

InitRun ==
    /\ text = <<>> /\ cursor = 0
    /\ hist = <<>> /\ queue = <<>> /\ calls = <<>>
    /\ op = "init" /\ ncalls = 0 /\ ac = NoAC /\ prev = NoAC

InitComplete ==
    /\ text \in SeqsUpTo(CompleteChars, MaxLen)
    /\ cursor \in 0..Len(text)
    /\ hist = <<>> /\ queue = <<>> /\ calls = <<>>
    /\ op = "init" /\ ncalls = 0 /\ ac = NoAC /\ prev = NoAC

\* LineEditData::AddChar: a key is typed at the cursor
AddChar ==
    \E ch \in RunChars :
        /\ Len(text) < MaxRunLen
        /\ text' = Insert(text, cursor, <<ch>>)
        /\ cursor' = cursor + 1
        /\ op' = "AddChar"
        /\ UNCHANGED <<hist, queue, calls, ncalls, ac, prev>>

\* Field::RunCommand, lines 52-68
RunCommand ==
    \E defaultCommand \in DefaultCommands :
        /\ Len(calls) < MaxCalls
        /\ calls' = Append(calls, [line |-> text, def |-> defaultCommand])
        /\ op' = "RunCommand"
        /\ IF text = <<>>
           THEN UNCHANGED <<text, cursor, hist, queue>>
           ELSE LET current == UTF32To8(text) IN
                /\ queue' = BufferCommandText(queue, Dispatched(current, defaultCommand))
                /\ hist' = HistAdd(hist, HistoryEntry(current))
                /\ text' = <<>>
                /\ cursor' = 0
        /\ UNCHANGED <<ncalls, ac, prev>>

\* Field::AutoComplete, lines 70-185
AutoCompleteCall(answers, limit) ==
    /\ ncalls < limit
    /\ \E answer \in answers, oob \in BOOLEAN :
        LET r == AutoCompleteResult(text, cursor, answer, oob) IN
        /\ oob => r.oobRead
        /\ text' = r.text
        /\ cursor' = r.cursor
        /\ ac' = r
        /\ prev' = ac
        /\ ncalls' = ncalls + 1
        /\ op' = "AutoComplete"
        /\ UNCHANGED <<hist, queue, calls>>

AutoComplete == AutoCompleteCall(Answers, 1)

AutoCompleteAgain == AutoCompleteCall(TabAnswers, MaxTabs)

NextRun == AddChar \/ RunCommand

\* lines are typed and submitted
SpecRun == InitRun /\ [][NextRun]_vars

\* one completion, from any buffer and cursor
SpecComplete == InitComplete /\ [][AutoComplete]_vars

\* the TAB key pressed again with no edit in between
SpecTab == InitComplete /\ [][AutoCompleteAgain]_vars

----------------------------------------------------------------------------
(* Properties of RunCommand, under SpecRun.                                 *)

Range(f) == {f[i] : i \in DOMAIN f}

IsCommandPrefix(ch) == ch = CP.slash \/ ch = CP.backslash

\* the text the dispatcher is to receive for a non-empty typed line
ExpectedDispatch(line, def) ==
    IF IsCommandPrefix(line[1]) THEN UTF32To8(Tail(line))
    ELSE IF def = <<>> THEN UTF32To8(line)
    ELSE def \o <<CP.space>> \o Escape(UTF32To8(line))

RECURSIVE ExpectedQueue(_)
ExpectedQueue(cs) ==
    IF cs = <<>> THEN <<>>
    ELSE (IF Head(cs).line = <<>> THEN <<>>
          ELSE <<ExpectedDispatch(Head(cs).line, Head(cs).def)>>)
         \o ExpectedQueue(Tail(cs))

RECURSIVE ExpectedHistory(_)
ExpectedHistory(cs) ==
    IF cs = <<>> THEN <<>>
    ELSE (IF Head(cs).line = <<>> THEN <<>> ELSE <<UTF32To8(Head(cs).line)>>)
         \o ExpectedHistory(Tail(cs))

\* C1: after any sequence of RunCommand calls the dispatcher queue holds, in
\* submission order, one entry per call made on a non-empty buffer and none
\* for a call on an empty buffer; the entry is the line without its first
\* character when the line starts with '/' or '\', the line verbatim when
\* it does not and defaultCommand is empty, and otherwise
\* defaultCommand + " " + escape(line).
C1_DispatchedInOrder == queue = ExpectedQueue(calls)

\* C1 reached: a '\\' line and a default-command line, submitted in this order
C1_Witness ==
    /\ Len(calls) = 2 /\ Len(queue) = 2
    /\ calls[1].line = <<CP.backslash, CP.eacute>> /\ calls[1].def /= <<>>
    /\ calls[2].line = <<CP.a, CP.space>> /\ calls[2].def /= <<>>
    /\ queue[1] = UTF32To8(<<CP.eacute>>)
    /\ queue[2] = <<CP.s, CP.a, CP.y, CP.space, CP.quote, CP.a, CP.space, CP.quote>>

\* C2: after any sequence of RunCommand calls History is exactly the
\* sequence of the non-empty submitted lines as typed (leading '/' or '\'
\* kept, not escaped, no default command), in order: a call on an empty
\* buffer adds nothing, a call on a non-empty buffer adds one entry; and
\* after every call the buffer is empty and the cursor is 0.
C2_HistoryAsTyped ==
    /\ hist = ExpectedHistory(calls)
    /\ op = "RunCommand" => (text = <<>> /\ cursor = 0)

\* C2 reached: a '/' line submitted, then RunCommand on the empty buffer
C2_Witness ==
    /\ op = "RunCommand" /\ Len(calls) = 2
    /\ calls[1].line = <<CP.slash, CP.a>> /\ calls[1].def /= <<>>
    /\ calls[2].line = <<>>
    /\ hist = <<<<CP.slash, CP.a>>>>
    /\ queue = <<<<CP.a>>>>

----------------------------------------------------------------------------
(* Properties of AutoComplete, under SpecComplete (SpecTab for C4).  They   *)
(* are stated on ac, the record of the last call: the buffer and cursor it  *)
(* started from (preText, preCursor), what it computed, and text and        *)
(* cursor, the buffer it left.                                              *)

\* the buffer and cursor after the '/' normalization of Step A
StepAText(str) ==
    IF str /= <<>> /\ IsCommandPrefix(str[1]) THEN str ELSE <<CP.slash>> \o str

StepACursor(str, cur) ==
    IF str /= <<>> /\ IsCommandPrefix(str[1]) THEN cur ELSE cur + 1

\* str with the d code points before offset c replaced by ins
Spliced(str, c, d, ins) == Take(str, c - d) \o ins \o Drop(str, c)

\* some d code points before the cursor of the normalized buffer were
\* replaced by the text to insert, and the cursor is right after it
SpliceDone ==
    \E d \in 0..ac.normCursor :
        /\ text = Spliced(ac.normText, ac.normCursor, d, ac.toInsert)
        /\ cursor = ac.normCursor - d + Len(ac.toInsert)

Unchanged == text = ac.preText /\ cursor = ac.preCursor

\* C3 as stated: a call either performs its whole mutation or leaves buffer
\* and cursor exactly as they were before the call.
C3_AllOrNothing ==
    ac.called => ((ac.result = "completed" /\ SpliceDone) \/ Unchanged)

\* C3 amended: a call performs its whole mutation (the '/' normalization
\* where it applies, then the splice) exactly when the provider returns at
\* least one candidate; when it returns none the call ends after the
\* normalization alone: the buffer is unchanged if it already started with
\* '/' or '\', and otherwise has '/' inserted at offset 0 and the cursor
\* advanced by one, with no splice done.
C3_AllOrNormalized ==
    ac.called =>
        /\ ac.normText = StepAText(ac.preText)
        /\ ac.normCursor = StepACursor(ac.preText, ac.preCursor)
        /\ IF ac.answer /= <<>>
           THEN ac.result = "completed" /\ SpliceDone
           ELSE /\ ac.result = "nocandidates"
                /\ text = ac.normText /\ cursor = ac.normCursor

\* C3 reached: no candidates for a buffer without '/': only the '/' is added
C3_Witness ==
    /\ ac.called /\ ac.answer = <<>>
    /\ ac.preText = <<CP.a>> /\ ac.preCursor = 1
    /\ text = <<CP.slash, CP.a>> /\ cursor = 2

BothSingle ==
    /\ ncalls >= 2 /\ prev.called /\ ac.called
    /\ Len(prev.candidates) = 1 /\ Len(ac.candidates) = 1

\* C4 as stated: with exactly one candidate on each of two calls in a row,
\* the second call ends in an error outcome or is a no-op.
C4_SecondIsNoOp == BothSingle => (ac.result = "error" \/ Unchanged)

\* C4 amended: with exactly one candidate on each of two calls in a row, the
\* second call never ends in an error outcome; it splices like any other
\* call, and whether that is a no-op depends on the buffer: whenever the
\* first call appended the trailing space, the second call completes a new,
\* empty argument, deletes nothing and inserts at least one character, so
\* the buffer grows; it can be a no-op only after a first call that
\* appended no space.
C4_SecondSplices ==
    BothSingle =>
        /\ ac.result = "completed" /\ SpliceDone
        /\ prev.spaced =>
              /\ ac.prefix = <<>>
              /\ ac.toInsert /= <<>>
              /\ text = Spliced(ac.normText, ac.normCursor, 0, ac.toInsert)
              /\ Len(text) > Len(ac.preText)
        /\ Unchanged => ~prev.spaced

\* C4 reached: "/a" completed to "/a ", then the second call adds "a "
C4_Witness ==
    /\ BothSingle /\ prev.spaced
    /\ prev.preText = <<CP.slash, CP.a>> /\ prev.preCursor = 2
    /\ ac.preText = <<CP.slash, CP.a, CP.space>>
    /\ text = <<CP.slash, CP.a, CP.space, CP.a, CP.space>> /\ cursor = 5

Whitespace == {CP.space, 9, 10, 11, 12, 13}

\* the first of the returned items in sorted order
SortedFirst(answer) ==
    CHOOSE m \in Range(answer) : \A q \in Range(answer) : ~ItemLess(q, m)

\* n characters of name are shared, case-insensitively, by all the items
SharedByAll(answer, name, n) ==
    \A q \in Range(answer) :
        /\ Len(q.first) >= n
        /\ \A k \in 1..n : ctolower(q.first[k]) = ctolower(name[k])

\* the length of the longest prefix shared case-insensitively by all
LongestShared(answer) ==
    LET name == SortedFirst(answer).first
        ok   == {n \in 0..Len(name) : SharedByAll(answer, name, n)}
    IN CHOOSE n \in ok : \A m \in ok : m <= n

\* the first candidate's text shrunk against each following candidate
RECURSIVE Shrunk(_, _)
Shrunk(str, candidates) ==
    IF candidates = <<>> THEN str
    ELSE Shrunk(Take(str, LongestIPrefixSize(str, Head(candidates).first)),
                Tail(candidates))

\* C5: the common insertion text is the first L characters of the first
\* candidate in sorted order, L the length of the longest prefix shared
\* case-insensitively by all surviving candidates; the minimum the code
\* takes against the first candidate is the L of the successive shrinking;
\* and this text is what is inserted, one candidate or several.
C5_CommonInsertion ==
    ac.result = "completed" =>
        LET L      == LongestShared(ac.answer)
            common == Take(SortedFirst(ac.answer).first, L)
        IN /\ ac.prefixSize = L
           /\ Shrunk(ac.candidates[1].first, Tail(ac.candidates)) = common
           /\ ac.completedArg = common \o (IF ac.spaced THEN <<CP.space>> ELSE <<>>)
           /\ ac.toInsert = UTF8To32(ac.completedArg)
           /\ cursor >= Len(ac.toInsert)
           /\ SubSeq(text, cursor - Len(ac.toInsert) + 1, cursor) = ac.toInsert

\* C5 reached: Ab, a, ab share one character, case-insensitively
C5_Witness ==
    /\ ac.result = "completed" /\ Len(ac.candidates) = 3
    /\ ac.candidates[1].first = <<CP.A, CP.b>>
    /\ ac.candidates[2].first = <<CP.a>>
    /\ ac.candidates[3].first = <<CP.a, CP.b>>
    /\ ac.toInsert = <<CP.A>>

\* C6: the spliced text is the common insertion text followed by exactly one
\* space iff exactly one candidate remains, the character at the cursor
\* (read before the splice; the end of the line is no whitespace) is not
\* whitespace, and the common insertion text does not end in '/'; otherwise
\* it is the common insertion text alone.
C6_TrailingSpace ==
    ac.result = "completed" =>
        LET common  == Take(SortedFirst(ac.answer).first, LongestShared(ac.answer))
            atEnd   == ac.normCursor = Len(ac.normText)
            blank   == ~atEnd /\ ac.normText[ac.normCursor + 1] \in Whitespace
            isPath  == common /= <<>> /\ common[Len(common)] = CP.slash
            wanted  == Cardinality(Range(ac.answer)) = 1 /\ ~blank /\ ~isPath
        IN /\ ac.spaced = wanted
           /\ ac.toInsert =
                 UTF8To32(common) \o (IF wanted THEN <<CP.space>> ELSE <<>>)

\* C6 reached: one candidate, the cursor followed by a non-blank character
C6_Witness ==
    /\ ac.result = "completed" /\ ac.spaced
    /\ ac.normText = <<CP.slash, CP.a, CP.eacute>> /\ ac.normCursor = 2
    /\ ac.toInsert = <<CP.a, CP.b, CP.space>>
    /\ text = <<CP.slash, CP.a, CP.b, CP.space, CP.eacute>>

\* C7: the text handed to the command splitter and the tokenizer is exactly
\* the code points at offsets 1 .. cursor-1 of the normalized buffer, never
\* one at or after the cursor, also for a buffer that starts with '/' or
\* '\' with the cursor at offset 0.
C7_UpToCursor ==
    ac.called => ac.commandText = UTF32To8(SubSeq(ac.normText, 2, ac.normCursor))

\* C8: a scan that starts at candidate `it` extends its run over the next
\* candidate when their common prefix, cut at the last '.' inside it, is
\* longer than the common-insertion length; the two are then reported by one
\* summary line.
C8_AdjacentGrouped ==
    (ac.result = "completed" /\ Len(ac.candidates) >= 2 /\ ac.argNum <= 1) =>
        \A n \in 2..Len(ac.report) :
            LET ln == ac.report[n]
                it == ln.first
            IN it < Len(ac.candidates) =>
                 LET name == ac.candidates[it].first
                     cpl  == LongestPrefixSize(name, ac.candidates[it + 1].first)
                     dots == {k \in 1..cpl : name[k] = CP.dot}
                 IN (\E k \in dots : k - 1 > ac.prefixSize) =>
                        (ln.kind = "namespace" /\ ln.last >= it + 1)

\* C9: with at least one candidate, B and c the buffer and cursor after the
\* normalization, p the length of the prefix-to-replace, d = min(p, c) and
\* T the text to insert, the buffer after the call is B[0 .. c-d) T B[c ..]
\* and the cursor is c - d + length(T): only the prefix-to-replace is
\* removed.
C9_SplicesPrefix ==
    ac.result = "completed" =>
        LET p == Len(UTF8To32(ac.prefix))
            d == Min(p, ac.normCursor)
        IN /\ text = Spliced(ac.normText, ac.normCursor, d, ac.toInsert)
           /\ cursor = ac.normCursor - d + Len(ac.toInsert)

\* C10 as stated: the surviving candidates are in strictly increasing order
\* of replacement text, so no two of them have the same replacement text.
C10_StrictByText ==
    ac.result = "completed" =>
        \A i \in 1..(Len(ac.candidates) - 1) :
            StrLess(ac.candidates[i].first, ac.candidates[i + 1].first)

\* C10 amended: the surviving candidates are in strictly increasing order of
\* the pair (replacement text, description): no two surviving candidates are
\* equal in both, while candidates with the same replacement text and
\* different descriptions all survive; the count used for the
\* single-candidate rule and for the ambiguity report is the number of
\* distinct (replacement text, description) pairs returned.
C10_StrictByItem ==
    ac.result = "completed" =>
        LET n == Cardinality(Range(ac.answer)) IN
        /\ \A i \in 1..(Len(ac.candidates) - 1) :
              /\ ItemLess(ac.candidates[i], ac.candidates[i + 1])
              /\ ~StrLess(ac.candidates[i + 1].first, ac.candidates[i].first)
        /\ Range(ac.candidates) = Range(ac.answer)
        /\ Len(ac.candidates) = n
        /\ ac.spaced => n = 1
        /\ (ac.report /= <<>>) = (n >= 2)

\* C10 reached: an exact duplicate is removed, the same text with another
\* description survives
C10_Witness ==
    /\ ac.result = "completed" /\ Len(ac.answer) = 3
    /\ Len(ac.candidates) = 2
    /\ ac.candidates[1] = Item(<<CP.a>>, <<>>)
    /\ ac.candidates[2] = Item(<<CP.a>>, <<CP.x>>)
    /\ ~ac.spaced /\ Len(ac.report) = 3

====
